---- MODULE Spec2Model ----
(***************************************************************************)
(* A model of the attribute-composition core of daydream:                  *)
(* dnd35e/core.py (Reference, Aggregator).                                 *)
(*                                                                         *)
(* Python values are records tagged by k: "int", "obj" (a handle to an     *)
(* object of the heap), "ref" (a Reference) and "none".  The result of a   *)
(* Python call is an outcome record [err, val]: err = "none" for a normal  *)
(* return, otherwise the name of the exception raised.                     *)
(***************************************************************************)
EXTENDS Integers, Sequences, FiniteSets, TLC

VARIABLES attrs, cells, cellOf, clsIgnore, last

vars == <<attrs, cells, cellOf, clsIgnore, last>>

(***************************************************************************)
(* Bounds                                                                  *)
(***************************************************************************)
MaxInt == 3

IntRange == 1..MaxInt

\* Modifier values range over -MaxMod..MaxMod
MaxMod == 2

\* the longest list of modifiers a ModifierTotal is built from
MaxLen == 3

\* the largest integer converted to an ordinal
MaxOrdinal == 22

(***************************************************************************)
(* Values and outcomes                                                     *)
(***************************************************************************)
NoneV == [k |-> "none"]

IntV(i) == [k |-> "int", v |-> i]

ObjV(o) == [k |-> "obj", id |-> o]

TStr(n) == [tk |-> "str", n |-> n]

TType(n) == [tk |-> "type", n |-> n]

\* Reference.__init__: the record (name, target, modifier)
RefV(name, target, modifier) ==
    [k |-> "ref", name |-> name, target |-> target, mod |-> modifier]

Ok(v) == [err |-> "none", val |-> v]

Err(e) == [err |-> e, val |-> NoneV]

\* the exceptions swallowed by `except (AttributeError, TypeError)`
Caught == {"AttributeError", "TypeError"}

(***************************************************************************)
(* The classes and objects of the modelled program                         *)
(*                                                                         *)
(* Root and Branch are direct subclasses of Aggregator; Root declares the  *)
(* read-only property `test` (returning self._test) and ignore={"ign"}.    *)
(* Leaf is a plain class and SubLeaf a subclass of Leaf.                   *)
(***************************************************************************)
Aggs == {"r1", "r2", "b1"}

Leaves == {"lf1", "lfo", "lfR", "lfN", "lfT", "sl1", "lfi", "lfA"}

\* the mock characters a Synergy is dereferenced against, by their ranks
Characters == {"ch0", "ch4", "ch5", "ch10"}

ClassOf(o) ==
    CASE o \in {"r1", "r2"} -> "Root"
      [] o = "b1" -> "Branch"
      [] o = "sl1" -> "SubLeaf"
      [] o \in Characters -> "Character"
      [] OTHER -> "Leaf"

AggClasses == {"Root", "Branch"}

\* issubclass(c, t) over the class hierarchy above
IsSubclass(c, t) == c = t \/ (c = "SubLeaf" /\ t = "Leaf")

\* the attributes of the plain (non-Aggregator) objects; they are never
\* reassigned
PlainAttrs(o) ==
    CASE o = "lf1" -> [test |-> IntV(1)]
      [] o = "lfo" -> [other |-> IntV(1)]
      [] o = "lfR" -> [test |-> RefV("other", TStr("Root"), NoneV)]
      [] o = "lfN" -> [test |-> RefV("other", TStr("Root"),
                                     RefV("another", TStr("Branch"), NoneV))]
      [] o = "lfT" -> [test |-> RefV("other", TType("Root"), IntV(1))]
      [] o = "sl1" -> [other |-> IntV(2), test |-> IntV(1)]
      [] o = "lfi" -> [ign |-> IntV(3), _p |-> IntV(3), other |-> IntV(1)]
      [] o = "lfA" -> [test |-> RefV("another", TStr("Root"), NoneV)]
      [] o = "ch0" -> [bluff |-> IntV(0)]
      [] o = "ch4" -> [bluff |-> IntV(4)]
      [] o = "ch5" -> [bluff |-> IntV(5)]
      [] o = "ch10" -> [bluff |-> IntV(10)]

\* vars(cls) entries that are properties (the subclass's property names)
PropertyNames(c) == IF c = "Root" THEN {"test"} ELSE {}

\* the private attribute a property's getter returns
Backing(n) == "_" \o n

\* the `ignore` argument of the class statement
IgnoreArg(c) == IF c = "Root" THEN {"ign"} ELSE {}

\* _is_private: name.startswith('_')
_is_private(n) == n \in {"_test", "_p"}

\* _is_public: not name.startswith('_')
_is_public(n) == ~ _is_private(n)

(***************************************************************************)
(* Addition as Python's operator.add dispatches it                         *)
(***************************************************************************)
RECURSIVE AddV(_, _), RefAdd(_, _)

\* Reference.__add__ that replaces the modifier instead of adding to it
RefAdd_overwrite(r, other) == Ok(RefV(r.name, r.target, other))

\* Reference.__add__ that returns the Reference as it is
RefAdd_drop(r, other) == Ok(r)

\* Reference.__add__ (and __radd__, which is the same function)
RefAdd(r, other) ==
    IF r.mod.k = "none"
    THEN Ok(RefV(r.name, r.target, other))
    ELSE LET s == AddV(r.mod, other)
         IN  IF s.err # "none" THEN s
             ELSE Ok(RefV(r.name, r.target, s.val))

\* operator.add(x, y) without Reference.__radd__
AddV_noradd(x, y) ==
    CASE x.k = "ref" -> RefAdd(x, y)
      [] x.k = "int" /\ y.k = "int" -> Ok(IntV(x.v + y.v))
      [] OTHER -> Err("TypeError")

\* operator.add(x, y): type(x).__add__ first, then type(y).__radd__;
\* int, plain objects and None do not know how to add a non-number
AddV(x, y) ==
    CASE x.k = "ref" -> RefAdd(x, y)
      [] x.k # "ref" /\ y.k = "ref" -> RefAdd(y, x)
      [] x.k = "int" /\ y.k = "int" -> Ok(IntV(x.v + y.v))
      [] OTHER -> Err("TypeError")

RECURSIVE Reduce(_, _, _)

\* functools.reduce(add, values) from position i on, acc being the
\* accumulated value
Reduce(values, i, acc) ==
    IF i > Len(values) THEN Ok(acc)
    ELSE LET s == AddV(acc, values[i])
         IN  IF s.err # "none" THEN s ELSE Reduce(values, i + 1, s.val)

(***************************************************************************)
(* The heap H = [attrs, names, ignore]: attrs[a] is the instance           *)
(* dictionary of Aggregator a, names[a] its _instance_names set and        *)
(* ignore[c] the _ignore set of class c.  ord[a] is the order in which     *)
(* iterating names[a] yields its elements (unspecified for a Python set).  *)
(***************************************************************************)
Heap == [attrs |-> attrs,
         names |-> [a \in Aggs |-> cells[cellOf[a]]],
         ignore |-> clsIgnore]

\* Reference._refers_to with an exact type comparison
_refers_to_exact(r, o) == ClassOf(o) = r.target.n

\* Reference._refers_to
_refers_to(r, o) ==
    IF r.target.tk = "type"
    THEN IsSubclass(ClassOf(o), r.target.n)
    ELSE ClassOf(o) = r.target.n

\* object.__getattribute__(a, n) on an Aggregator instance: a property of
\* the class wins over the instance dictionary; the getter returns the
\* backing private attribute
ObjectGetAttribute(H, a, n) ==
    IF n \in PropertyNames(ClassOf(a))
    THEN IF Backing(n) \in DOMAIN H.attrs[a]
         THEN Ok(H.attrs[a][Backing(n)])
         ELSE Err("AttributeError")
    ELSE IF n \in DOMAIN H.attrs[a]
         THEN Ok(H.attrs[a][n])
         ELSE Err("AttributeError")

RECURSIVE Perms(_), SeqOf(_), Visited(_, _)

\* all sequences that enumerate the set S once
Perms(S) ==
    IF S = {} THEN {<<>>}
    ELSE UNION {{<<x>> \o p : p \in Perms(S \ {x})} : x \in S}

\* one sequence that enumerates the set S once
SeqOf(S) ==
    IF S = {} THEN <<>>
    ELSE LET x == CHOOSE y \in S : TRUE IN <<x>> \o SeqOf(S \ {x})

\* the tracked names of a under which the loop of __getattribute__ finds
\* something other than a number: an object, or no attribute at all
Contributing(H, a) ==
    {m \in H.names[a] :
        LET at == ObjectGetAttribute(H, a, m)
        IN  at.err # "none" \/ at.val.k = "obj"}

\* the iteration orders of a's _instance_names that can differ in their
\* effect: the loop steps over a name that holds a number wherever it
\* comes, so these names are put first, and the others follow in every
\* possible order
IterOrders(H, a) ==
    {SeqOf(H.names[a] \ Contributing(H, a)) \o p :
        p \in Perms(Contributing(H, a))}

\* the Aggregators a read of an attribute of a can visit: a itself and the
\* Aggregators stored under its attributes, recursively
Visited(H, a) ==
    {a} \cup UNION {Visited(H, H.attrs[a][m].id) :
                      m \in {x \in DOMAIN H.attrs[a] :
                                /\ H.attrs[a][x].k = "obj"
                                /\ H.attrs[a][x].id \in Aggs}}

\* one iteration order for the _instance_names of each Aggregator a read of
\* a visits (the order of the others is of no consequence)
Orders(H, a) ==
    {[b \in Aggs |-> IF b = "r1" THEN p1 ELSE IF b = "r2" THEN p2 ELSE p3] :
        p1 \in IF "r1" \in Visited(H, a) THEN IterOrders(H, "r1")
                ELSE {<<>>},
        p2 \in IF "r2" \in Visited(H, a) THEN IterOrders(H, "r2")
                ELSE {<<>>},
        p3 \in IF "b1" \in Visited(H, a) THEN IterOrders(H, "b1")
                ELSE {<<>>}}

RECURSIVE GetAttr(_, _, _, _), Collect(_, _, _, _, _, _),
          dereference(_, _, _, _), Aggregate(_, _, _, _),
          Resolve(_, _, _, _), ReadAttribute(_, _, _, _)

\* getattr that reads an Aggregator's own attribute, without aggregating
GetAttr_raw(H, ord, o, n) ==
    IF o \in Aggs THEN ObjectGetAttribute(H, o, n)
    ELSE IF n \in DOMAIN PlainAttrs(o) THEN Ok(PlainAttrs(o)[n])
    ELSE Err("AttributeError")

\* getattr(o, n) on any object of the heap
GetAttr(H, ord, o, n) ==
    IF o \in Aggs THEN ReadAttribute(H, ord, o, n)
    ELSE IF n \in DOMAIN PlainAttrs(o) THEN Ok(PlainAttrs(o)[n])
    ELSE Err("AttributeError")

\* the loop without hasattr: a contributor that lacks n raises
Collect_strict(H, ord, a, n, i, vals) ==
    IF i > Len(ord[a]) THEN [err |-> "none", vals |-> vals]
    ELSE LET m == ord[a][i]
         IN  IF m = n THEN Collect(H, ord, a, n, i + 1, vals)
             ELSE LET at == ObjectGetAttribute(H, a, m)
                  IN  IF at.err # "none" THEN [err |-> at.err, vals |-> vals]
                      ELSE IF at.val.k # "obj"
                      THEN Collect(H, ord, a, n, i + 1, vals)
                      ELSE LET g == GetAttr(H, ord, at.val.id, n)
                           IN  IF g.err # "none"
                               THEN [err |-> g.err, vals |-> vals]
                               ELSE Collect(H, ord, a, n, i + 1,
                                            Append(vals, g.val))

\* the loop over _instance_names of Aggregator.__getattribute__, from
\* position i of the iteration order on; vals are the values appended
Collect(H, ord, a, n, i, vals) ==
    IF i > Len(ord[a]) THEN [err |-> "none", vals |-> vals]
    ELSE LET m == ord[a][i]
         IN  IF m = n THEN Collect(H, ord, a, n, i + 1, vals)
             ELSE LET at == ObjectGetAttribute(H, a, m)
                  IN  IF at.err # "none" THEN [err |-> at.err, vals |-> vals]
                      ELSE IF at.val.k # "obj"
                      THEN Collect(H, ord, a, n, i + 1, vals)
                      ELSE LET g == GetAttr(H, ord, at.val.id, n)
                           IN  IF g.err = "AttributeError"
                               THEN Collect(H, ord, a, n, i + 1, vals)
                               ELSE IF g.err # "none"
                               THEN [err |-> g.err, vals |-> vals]
                               ELSE Collect(H, ord, a, n, i + 1,
                                            Append(vals, g.val))

\* dereference that hands back the reference itself for an instance that is
\* not referred to, instead of raising TypeError
dereference_self(H, ord, r, o) ==
    LET matched == _refers_to(r, o)
        d == IF matched THEN GetAttr(H, ord, o, r.name) ELSE Ok(r)
    IN  IF d.err # "none" THEN d
        ELSE LET inner == IF r.mod.k = "ref"
                          THEN dereference(H, ord, r.mod, o)
                          ELSE Err("AttributeError")
             IN  IF inner.err \in Caught
                 THEN IF ~ matched THEN Ok(r)
                      ELSE IF r.mod.k # "none" THEN AddV(d.val, r.mod)
                      ELSE d
                 ELSE IF inner.err # "none" THEN inner
                 ELSE IF ~ matched
                      THEN Ok(RefV(r.name, r.target, inner.val))
                      ELSE AddV(d.val, inner.val)

\* dereference that forgets to add a modifier that cannot be dereferenced
dereference_nomod(H, ord, r, o) ==
    LET matched == _refers_to(r, o)
        d == IF matched THEN GetAttr(H, ord, o, r.name) ELSE Ok(r)
    IN  IF d.err # "none" THEN d
        ELSE LET inner == IF r.mod.k = "ref"
                          THEN dereference(H, ord, r.mod, o)
                          ELSE Err("AttributeError")
             IN  IF inner.err \in Caught
                 THEN IF ~ matched THEN Err("TypeError") ELSE d
                 ELSE IF inner.err # "none" THEN inner
                 ELSE IF ~ matched
                      THEN Ok(RefV(r.name, r.target, inner.val))
                      ELSE AddV(d.val, inner.val)

\* Reference.dereference that never dereferences its modifier
dereference_shallow(H, ord, r, o) ==
    LET matched == _refers_to(r, o)
        d == IF matched THEN GetAttr(H, ord, o, r.name) ELSE Ok(r)
    IN  IF d.err # "none" THEN d
        ELSE IF ~ matched THEN Err("TypeError")
        ELSE IF r.mod.k # "none" THEN AddV(d.val, r.mod) ELSE d

\* Reference.dereference(r, o), with Reference._dereference_name inlined:
\* matched = the instance is referred to, so that d is the attribute and
\* not the reference itself
dereference(H, ord, r, o) ==
    LET matched == _refers_to(r, o)
        d == IF matched THEN GetAttr(H, ord, o, r.name) ELSE Ok(r)
    IN  IF d.err # "none" THEN d
        ELSE LET inner == IF r.mod.k = "ref"
                          THEN dereference(H, ord, r.mod, o)
                          ELSE Err("AttributeError")
             IN  IF inner.err \in Caught
                 THEN IF ~ matched THEN Err("TypeError")
                      ELSE IF r.mod.k # "none" THEN AddV(d.val, r.mod)
                      ELSE d
                 ELSE IF inner.err # "none" THEN inner
                 ELSE IF ~ matched
                      THEN Ok(RefV(r.name, r.target, inner.val))
                      ELSE AddV(d.val, inner.val)

\* Reference.dereference without the deepcopy of line 102: the new modifier
\* is stored in self
SelfAfterDereference_inplace(r, o, out) ==
    IF ~ _refers_to(r, o) /\ out.err = "none" THEN out.val ELSE r

\* The Reference self after self.dereference(o) returned or raised out: the
\* only assignment to a Reference's field (line 104) is made on a deep copy
\* of self, so self is as it was
SelfAfterDereference(r, o, out) == r

\* __getattribute__ that aggregates the ignored and the private names too
Aggregate_noignore(H, ord, a, n) ==
    LET own == ObjectGetAttribute(H, a, n)
        col == Collect(H, ord, a, n, 1,
                       IF own.err = "none" THEN <<own.val>> ELSE <<>>)
    IN  IF own.err \notin {"none", "AttributeError"} THEN own
        ELSE IF col.err # "none" THEN Err(col.err)
        ELSE IF col.vals = <<>> THEN Err("AttributeError")
        ELSE Reduce(col.vals, 2, col.vals[1])

\* Aggregator.__getattribute__(a, n) up to the reduction: the value of
\* `result` before the attempt to dereference it
Aggregate(H, ord, a, n) ==
    LET own == ObjectGetAttribute(H, a, n)
        col == Collect(H, ord, a, n, 1,
                       IF own.err = "none" THEN <<own.val>> ELSE <<>>)
    IN  IF _is_private(n) \/ n \in H.ignore[ClassOf(a)]
        THEN own
        ELSE IF own.err \notin {"none", "AttributeError"} THEN own
        ELSE IF col.err # "none" THEN Err(col.err)
        ELSE IF col.vals = <<>> THEN Err("AttributeError")
        ELSE Reduce(col.vals, 2, col.vals[1])

\* the end of __getattribute__ without the try: an error of dereference
\* leaves the read
Resolve_raise(H, ord, a, res) ==
    IF res.err # "none" THEN res
    ELSE IF res.val.k # "ref" THEN res
    ELSE dereference(H, ord, res.val, a)

\* the end of Aggregator.__getattribute__: result.dereference(self), the
\* result being kept when that raises AttributeError or TypeError (as it
\* does for a value that has no dereference method)
Resolve(H, ord, a, res) ==
    IF res.err # "none" THEN res
    ELSE IF res.val.k # "ref" THEN res
    ELSE LET dr == dereference(H, ord, res.val, a)
         IN  IF dr.err \in Caught THEN res ELSE dr

\* Aggregator.__getattribute__(a, n)
ReadAttribute(H, ord, a, n) == Resolve(H, ord, a, Aggregate(H, ord, a, n))

(***************************************************************************)
(* The state machine: attribute assignment, deletion and read on the       *)
(* Aggregator instances r1, r2 (class Root) and b1 (class Branch).         *)
(***************************************************************************)
\* dict[n] = v
Put(f, n, v) == [m \in DOMAIN f \cup {n} |-> IF m = n THEN v ELSE f[m]]

\* del dict[n]
Drop(f, n) == [m \in DOMAIN f \ {n} |-> f[m]]

\* Aggregator.__init_subclass__: the class-level _instance_names
ClassNamesCell(c) == c

\* Aggregator.__init__ without the copy: the instance shares the set object
\* of its class
SharedNamesCell(a) == ClassNamesCell(ClassOf(a))

\* Aggregator.__init__: copy(self._instance_names) gives the instance a set
\* object of its own (objects of sets are named by cell identifiers)
InstanceNamesCell(a) == a

\* _known_names without the ignored names
_known_names_tracked(a) == cells[cellOf[a]]

\* Aggregator._known_names
_known_names(a) == clsIgnore[ClassOf(a)] \cup cells[cellOf[a]]

\* the (name, value) pairs the model assigns
SetDom(a) ==
    CASE a = "r1" -> {<<"other", IntV(2)>>,
                      <<"leaf", ObjV("lf1")>>, <<"leaf", ObjV("lfR")>>,
                      <<"branch", ObjV("b1")>>, <<"test", IntV(1)>>}
      [] a = "r2" -> {<<"ign", IntV(1)>>, <<"_p", IntV(1)>>}
      [] a = "b1" -> {<<"test", IntV(i)>> : i \in IntRange}
                     \cup {<<"another", IntV(1)>>, <<"leaf", ObjV("lf1")>>,
                           <<"leaf", ObjV("lfR")>>, <<"leaf", ObjV("lfN")>>}

\* the names the model deletes (the private attribute behind a property is
\* set by the constructor and never deleted, so a getter always returns)
DelDom(a) ==
    CASE a = "r1" -> {"other", "leaf", "branch", "test"}
      [] a = "r2" -> {"ign", "_p", "other"}
      [] a = "b1" -> {"test", "another", "leaf"}

\* the names the model reads
ReadDom(a) ==
    CASE a = "r1" -> {"test", "other", "leaf"}
      [] a = "r2" -> {"test", "ign"}
      [] a = "b1" -> {"test", "other"}

Init ==
    /\ attrs = [a \in Aggs |-> IF ClassOf(a) = "Root"
                                THEN [_test |-> IntV(2)] ELSE <<>>]
    /\ cellOf = [a \in Aggs |-> InstanceNamesCell(a)]
    /\ cells = [c \in AggClasses \cup Aggs |->
                  IF c \in AggClasses THEN PropertyNames(c)
                  ELSE PropertyNames(ClassOf(c))]
    /\ clsIgnore = [c \in AggClasses |-> IgnoreArg(c)]
    /\ last = [op |-> "init", obj |-> "-", name |-> "-", arg |-> NoneV,
               red |-> Ok(NoneV), out |-> Ok(NoneV)]

\* Aggregator.__setattr__(a, n, v); object.__setattr__ refuses a property
\* that has no setter
SetAttr(a, n, v) ==
    LET track == _is_public(n) /\ n \notin _known_names(a)
        fails == n \in PropertyNames(ClassOf(a))
    IN  /\ cells' = IF track THEN [cells EXCEPT ![cellOf[a]] = @ \cup {n}]
                    ELSE cells
        /\ attrs' = IF fails THEN attrs
                    ELSE [attrs EXCEPT ![a] = Put(@, n, v)]
        /\ last' = [op |-> "set", obj |-> a, name |-> n, arg |-> v,
                    red |-> Ok(NoneV),
                    out |-> IF fails THEN Err("AttributeError")
                            ELSE Ok(NoneV)]
        /\ UNCHANGED <<cellOf, clsIgnore>>

\* __delattr__ that leaves the name in _instance_names
DelAttr_keep(a, n) ==
    LET found == n \notin PropertyNames(ClassOf(a)) /\ n \in DOMAIN attrs[a]
    IN  /\ attrs' = IF found THEN [attrs EXCEPT ![a] = Drop(@, n)] ELSE attrs
        /\ last' = [op |-> "del", obj |-> a, name |-> n, arg |-> NoneV,
                    red |-> Ok(NoneV),
                    out |-> IF ~ found THEN Err("AttributeError")
                            ELSE Ok(NoneV)]
        /\ UNCHANGED <<cells, cellOf, clsIgnore>>

\* Aggregator.__delattr__(a, n): object.__delattr__ first, then
\* set.remove, which raises KeyError for a name that is not tracked
DelAttr(a, n) ==
    LET found == n \notin PropertyNames(ClassOf(a)) /\ n \in DOMAIN attrs[a]
        tracked == n \in cells[cellOf[a]]
    IN  /\ attrs' = IF found THEN [attrs EXCEPT ![a] = Drop(@, n)] ELSE attrs
        /\ cells' = IF found /\ tracked
                    THEN [cells EXCEPT ![cellOf[a]] = @ \ {n}] ELSE cells
        /\ last' = [op |-> "del", obj |-> a, name |-> n, arg |-> NoneV,
                    red |-> Ok(NoneV),
                    out |-> IF ~ found THEN Err("AttributeError")
                            ELSE IF ~ tracked THEN Err("KeyError")
                            ELSE Ok(NoneV)]
        /\ UNCHANGED <<cellOf, clsIgnore>>

\* reading a.n, under any iteration order of the name sets; last.red
\* records the reduced value and last.out what the read returns or raises
Read(a, n) ==
    /\ \E ord \in Orders(Heap, a) :
          last' = [op |-> "read", obj |-> a, name |-> n, arg |-> NoneV,
                   red |-> Aggregate(Heap, ord, a, n),
                   out |-> ReadAttribute(Heap, ord, a, n)]
    /\ UNCHANGED <<attrs, cells, cellOf, clsIgnore>>

Next ==
    \/ \E a \in Aggs : \E p \in SetDom(a) : SetAttr(a, p[1], p[2])
    \/ \E a \in Aggs : \E n \in DelDom(a) : DelAttr(a, n)
    \/ \E a \in Aggs : \E n \in ReadDom(a) : Read(a, n)

Spec == Init /\ [][Next]_vars

(***************************************************************************)
(* A Root whose contributor holds the ignored and the private names the    *)
(* Root holds itself.                                                      *)
(***************************************************************************)
IgnoreSetDom ==
    {<<"ign", IntV(1)>>, <<"ign", RefV("other", TStr("Root"), NoneV)>>,
     <<"ign", RefV("other", TStr("Branch"), NoneV)>>,
     <<"_p", IntV(1)>>, <<"_p", RefV("other", TStr("Root"), IntV(1))>>,
     <<"other", IntV(2)>>, <<"leaf", ObjV("lfi")>>}

IgnoreDelDom == {"ign", "_p", "other", "leaf"}

IgnoreReadDom == {"ign", "_p", "other"}

NextIgnore ==
    \/ \E p \in IgnoreSetDom : SetAttr("r2", p[1], p[2])
    \/ \E n \in IgnoreDelDom : DelAttr("r2", n)
    \/ \E n \in IgnoreReadDom : Read("r2", n)

SpecIgnore == Init /\ [][NextIgnore]_vars

(***************************************************************************)
(* A Branch with two contributors, each exposing a Reference.              *)
(***************************************************************************)
OrderSetDom(a) ==
    CASE a = "r1" -> {<<"other", IntV(2)>>, <<"another", IntV(1)>>,
                      <<"branch", ObjV("b1")>>}
      [] a = "b1" -> {<<"leaf", ObjV("lfR")>>, <<"leaf", ObjV("lf1")>>,
                      <<"leaf2", ObjV("lfA")>>, <<"leaf2", ObjV("lf1")>>,
                      <<"test", IntV(1)>>}
      [] OTHER -> {}

OrderDelDom(a) ==
    CASE a = "r1" -> {"branch"}
      [] a = "b1" -> {"leaf", "leaf2", "test"}
      [] OTHER -> {}

OrderReadDom(a) ==
    CASE a = "r1" -> {"test", "other"}
      [] a = "b1" -> {"test"}
      [] OTHER -> {}

NextOrder ==
    \/ \E a \in Aggs : \E p \in OrderSetDom(a) : SetAttr(a, p[1], p[2])
    \/ \E a \in Aggs : \E n \in OrderDelDom(a) : DelAttr(a, n)
    \/ \E a \in Aggs : \E n \in OrderReadDom(a) : Read(a, n)

SpecOrder == Init /\ [][NextOrder]_vars

(***************************************************************************)
(* Reference.dereference called directly: the heap is the tree the tests   *)
(* build (a Root holding a Leaf and a Branch, the Branch holding a Leaf    *)
(* with a nested Reference); the initial state holds the call to make, a   *)
(* Reference and a candidate object, and the step makes it.                *)
(***************************************************************************)
RefTargets ==
    {TStr("Root"), TType("Root"), TStr("Leaf"), TType("Leaf"),
     TStr("Branch"), TStr("Unknown")}

RefNames == {"other", "another"}

\* the References that serve as modifier of a nested modifier
InnermostRefs ==
    {RefV("other", TStr("Root"), NoneV), RefV("other", TType("Leaf"), IntV(1)),
     RefV("another", TStr("Branch"), NoneV)}

\* the References that serve as modifier of another Reference
InnerRefs ==
    {RefV(n, t, m) : n \in RefNames,
                     t \in {TStr("Root"), TType("Leaf"), TStr("Branch")},
                     m \in {NoneV, IntV(1)} \cup InnermostRefs}

\* the References the model dereferences
RefDom ==
    {RefV(n, t, m) : n \in RefNames, t \in RefTargets,
                     m \in {NoneV} \cup {IntV(i) : i \in IntRange}
                           \cup InnerRefs}

\* the candidates the model dereferences against
CandDom == {"lf1", "lfo", "sl1", "r1", "b1"}

\* the iteration orders that matter when o is read
OrdersAt(H, o) ==
    IF o \in Aggs THEN Orders(H, o) ELSE {[b \in Aggs |-> <<>>]}

InitRef ==
    /\ \E i \in IntRange :
          attrs = [a \in Aggs |->
                     CASE a = "r1" -> [_test |-> IntV(2), other |-> IntV(i),
                                       leaf |-> ObjV("lf1"),
                                       branch |-> ObjV("b1")]
                       [] a = "r2" -> [_test |-> IntV(2)]
                       [] a = "b1" -> [test |-> IntV(1), another |-> IntV(1),
                                       leaf |-> ObjV("lfN")]]
    /\ cellOf = [a \in Aggs |-> InstanceNamesCell(a)]
    /\ cells = [c \in AggClasses \cup Aggs |->
                  CASE c = "r1" -> {"test", "other", "leaf", "branch"}
                    [] c = "b1" -> {"test", "another", "leaf"}
                    [] OTHER -> IF c \in AggClasses THEN PropertyNames(c)
                                ELSE PropertyNames(ClassOf(c))]
    /\ clsIgnore = [c \in AggClasses |-> IgnoreArg(c)]
    /\ \E r \in RefDom : \E o \in CandDom :
          \/ last = [op |-> "call", obj |-> o, name |-> r.name, arg |-> r,
                     self |-> r, red |-> Ok(NoneV), out |-> Ok(NoneV)]
          \/ \E x \in IntRange :
                last = [op |-> "callAdd", obj |-> o, name |-> r.name,
                        arg |-> r, self |-> r, x |-> IntV(x),
                        red |-> Ok(NoneV), out |-> Ok(NoneV)]

\* r.dereference(o): last.self is the Reference r as the call leaves it
Deref(r, o) ==
    /\ last.op = "call" /\ last.arg = r /\ last.obj = o
    /\ \E ord \in OrdersAt(Heap, o) :
          LET out == dereference(Heap, ord, r, o)
          IN  last' = [op |-> "deref", obj |-> o, name |-> r.name, arg |-> r,
                       self |-> SelfAfterDereference(r, o, out),
                       red |-> Ok(NoneV), out |-> out]
    /\ UNCHANGED <<attrs, cells, cellOf, clsIgnore>>

\* r + x: last.self is the Reference r as the addition leaves it
Add(r, x) ==
    /\ last.op = "callAdd" /\ last.arg = r /\ last.x = x
    /\ last' = [op |-> "add", obj |-> last.obj, name |-> r.name, arg |-> r,
                self |-> r, x |-> x, red |-> Ok(NoneV), out |-> RefAdd(r, x)]
    /\ UNCHANGED <<attrs, cells, cellOf, clsIgnore>>

NextRef ==
    \/ Deref(last.arg, last.obj)
    \/ Add(last.arg, last.x)

SpecRef == InitRef /\ [][NextRef]_vars

(***************************************************************************)
(* defn/numbers.py: ModifierType, Modifier and ModifierTotal.  A Modifier  *)
(* is the record of its three fields, tagged k = "mod"; a condition is     *)
(* None or the record of its text.  A ModifierTotal, tagged k = "total",   *)
(* holds its dictionary _modifiers as the sequence d of its entries        *)
(* [key, mod] in insertion order.                                          *)
(***************************************************************************)
ModifierType(name, stacks) == [name |-> name, stacks |-> stacks]

UNTYPED == ModifierType("untyped", TRUE)

Condition(text) == [text |-> text]

Modifier(value, type, condition) ==
    [k |-> "mod", value |-> value, type |-> type, condition |-> condition]

ModifierTotalV(d) == [k |-> "total", d |-> d]

is_bonus(m) == m.value >= 0

is_penalty(m) == m.value <= 0

Max(a, b) == IF a >= b THEN a ELSE b

Min(a, b) == IF a <= b THEN a ELSE b

\* what a binary method returns for an operand it does not handle
NotImplemented == Err("NotImplemented")

\* Modifier.__add__ that sums whatever the type
Modifier__add__sum(self, other) ==
    IF other.k # "mod" THEN NotImplemented
    ELSE IF self.type # other.type THEN Err("DifferentModifierTypesError")
    ELSE Ok(Modifier(self.value + other.value, self.type, NoneV))

\* Modifier.__add__ that takes the larger value whatever the type
Modifier__add__max(self, other) ==
    IF other.k # "mod" THEN NotImplemented
    ELSE IF self.type # other.type THEN Err("DifferentModifierTypesError")
    ELSE IF is_bonus(self) /\ is_bonus(other)
         THEN Ok(Modifier(Max(self.value, other.value), self.type, NoneV))
    ELSE IF is_penalty(self) /\ is_penalty(other)
         THEN Ok(Modifier(Min(self.value, other.value), self.type, NoneV))
    ELSE Err("BonusAndPenaltyCombinationError")

\* Modifier.__add__ that lets a zero modifier count as a bonus only
Modifier__add__zero(self, other) ==
    IF other.k # "mod" THEN NotImplemented
    ELSE IF self.type # other.type THEN Err("DifferentModifierTypesError")
    ELSE IF self.type.stacks
         THEN Ok(Modifier(self.value + other.value, self.type, NoneV))
    ELSE IF is_bonus(self) /\ is_bonus(other)
         THEN Ok(Modifier(Max(self.value, other.value), self.type, NoneV))
    ELSE IF self.value < 0 /\ other.value < 0
         THEN Ok(Modifier(Min(self.value, other.value), self.type, NoneV))
    ELSE Err("BonusAndPenaltyCombinationError")

\* Modifier.__add__ that returns self for a modifier of the same type
Modifier__add__first(self, other) ==
    IF other.k # "mod" THEN NotImplemented
    ELSE IF self.type # other.type THEN Err("DifferentModifierTypesError")
    ELSE Ok(self)

\* Modifier.__add__: the modifier built has no condition
Modifier__add__(self, other) ==
    IF other.k # "mod" THEN NotImplemented
    ELSE IF self.type # other.type THEN Err("DifferentModifierTypesError")
    ELSE IF self.type.stacks
         THEN Ok(Modifier(self.value + other.value, self.type, NoneV))
    ELSE IF is_bonus(self) /\ is_bonus(other)
         THEN Ok(Modifier(Max(self.value, other.value), self.type, NoneV))
    ELSE IF is_penalty(self) /\ is_penalty(other)
         THEN Ok(Modifier(Min(self.value, other.value), self.type, NoneV))
    ELSE Err("BonusAndPenaltyCombinationError")

\* Modifier.__lt__ that compares the values whatever the types
Modifier__lt__untyped(self, other) == Ok(self.value < other.value)

\* Modifier.__lt__ (other a Modifier)
Modifier__lt__(self, other) ==
    IF self.type # other.type THEN Err("DifferentModifierTypesError")
    ELSE Ok(self.value < other.value)

\* Modifier.__eq__, generated by dataclass: the three fields are equal
Modifier__eq__(self, other) ==
    /\ self.value = other.value /\ self.type = other.type
    /\ self.condition = other.condition

\* the comparison operators of a Modifier: < is __lt__, the others are what
\* functools.total_ordering derives from __lt__ and the dataclass __eq__
Compare(op, self, other) ==
    LET lt == Modifier__lt__(self, other)
    IN  IF lt.err # "none" THEN lt
        ELSE CASE op = "<" -> lt
               [] op = "<=" -> Ok(lt.val \/ Modifier__eq__(self, other))
               [] op = ">" -> Ok(~ lt.val /\ ~ Modifier__eq__(self, other))
               [] op = ">=" -> Ok(~ lt.val)

\* _key without the bonus or penalty bucket
_key_nobucket(modifier) == <<modifier.type, TRUE, modifier.condition>>

\* _key without the type
_key_notype(modifier) ==
    <<UNTYPED, modifier.type.stacks \/ is_bonus(modifier), modifier.condition>>

\* _key(modifier)
_key(modifier) ==
    <<modifier.type, modifier.type.stacks \/ is_bonus(modifier),
      modifier.condition>>

RECURSIVE Insert(_, _, _), SumValues(_, _, _)

\* the loop of ModifierTotal.__init__ from position i of modifiers on, d
\* being the dictionary built so far
Insert(d, modifiers, i) ==
    IF i > Len(modifiers) THEN Ok(ModifierTotalV(d))
    ELSE LET mod == modifiers[i]
             key == _key(mod)
             at == {j \in 1..Len(d) : d[j].key = key}
         IN  IF at # {}
             THEN LET j == CHOOSE j \in at : TRUE
                      sum == Modifier__add__(d[j].mod, mod)
                  IN  IF sum.err # "none" THEN sum
                      ELSE Insert([d EXCEPT ![j].mod = sum.val],
                                  modifiers, i + 1)
             ELSE Insert(Append(d, [key |-> key, mod |-> mod]),
                         modifiers, i + 1)

\* ModifierTotal(*modifiers)
ModifierTotal__init__(modifiers) == Insert(<<>>, modifiers, 1)

\* self._modifiers.values()
Values(total) == [j \in 1..Len(total.d) |-> total.d[j].mod]

\* the sum ModifierTotal.value computes over the entries from position i on
SumValues(total, conditions_met, i) ==
    IF i > Len(total.d) THEN 0
    ELSE LET mod == total.d[i].mod
         IN  (IF mod.condition = NoneV \/ mod.condition \in conditions_met
              THEN mod.value ELSE 0)
             + SumValues(total, conditions_met, i + 1)

\* ModifierTotal.value(*conditions_met)
value(total, conditions_met) == SumValues(total, conditions_met, 1)

\* ModifierTotal.conditions
conditions(total) ==
    {total.d[j].key[3] : j \in {i \in 1..Len(total.d) :
                                   total.d[i].key[3] # NoneV}}

\* ModifierTotal.__eq__: the dictionaries hold the same keys with the same
\* values, in whatever order
ModifierTotal__eq__(self, other) ==
    {self.d[j] : j \in 1..Len(self.d)} = {other.d[j] : j \in 1..Len(other.d)}

\* ModifierTotal.__add__ (and __radd__, which is the same function)
ModifierTotal__add__(self, other) ==
    CASE other.k = "total" ->
           ModifierTotal__init__(Values(self) \o Values(other))
      [] other.k = "mod" -> ModifierTotal__init__(<<other>> \o Values(self))
      [] OTHER -> NotImplemented

\* x + y for Modifiers and ModifierTotals: type(x).__add__, and
\* type(y).__radd__ when that returns NotImplemented (a Modifier has no
\* __radd__)
operator_add(x, y) ==
    LET fwd == IF x.k = "mod" THEN Modifier__add__(x, y)
               ELSE ModifierTotal__add__(x, y)
    IN  IF fwd # NotImplemented THEN fwd
        ELSE IF y.k = "total" THEN ModifierTotal__add__(y, x)
        ELSE Err("TypeError")

\* a str value
StrV(s) == [k |-> "str", s |-> s]

\* the tuple _ORDINALS
_ORDINALS ==
    <<"zeroth", "first", "second", "third", "fourth", "fifth",
      "sixth", "seventh", "eighth", "ninth", "tenth", "eleventh",
      "twelfth", "thirteenth", "fourteenth", "sixteenth",
      "eighteenth", "nineteenth", "twentieth">>

\* _integer_to_ordinal: _ORDINALS[value], the tuple being indexed from 0
_integer_to_ordinal(val) ==
    IF val < 0 THEN Err("ValueError")
    ELSE IF val + 1 \in DOMAIN _ORDINALS THEN Ok(StrV(_ORDINALS[val + 1]))
    ELSE Err("NotImplementedError")

\* _ordinal_to_integer: _ORDINALS.index(value), the first position
_ordinal_to_integer(val) ==
    LET at == {i \in DOMAIN _ORDINALS : _ORDINALS[i] = val}
    IN  IF at = {} THEN Err("ValueError")
        ELSE Ok(IntV((CHOOSE i \in at : \A j \in at : i <= j) - 1))

\* ordinal(value)
ordinal(val) ==
    CASE val.k = "int" -> _integer_to_ordinal(val.v)
      [] val.k = "str" -> _ordinal_to_integer(val.s)
      [] OTHER -> Err("NotImplementedError")

(***************************************************************************)
(* The numbers called directly: the initial state holds the call to make   *)
(* and the step makes it.                                                  *)
(***************************************************************************)
ModTypes ==
    {ModifierType("armor", FALSE), ModifierType("shield", FALSE), UNTYPED,
     ModifierType("armor", TRUE)}

CondDom == {NoneV, Condition("c"), Condition("d")}

\* the modifiers added and compared
ModDom ==
    {Modifier(v, t, c) : v \in (0 - MaxMod)..MaxMod, t \in ModTypes,
                         c \in CondDom}

\* the modifiers totals are built from
SeqMods ==
    {Modifier(v, t, c) : v \in {0 - 1, 0, 1},
                         t \in {ModifierType("armor", FALSE), UNTYPED},
                         c \in {NoneV, Condition("c")}}

\* the lists of at most n modifiers
ModSeqs(n) == UNION {[1..l -> SeqMods] : l \in 0..n}

CompareOps == {"<", "<=", ">", ">="}

\* the words converted to integers
OrdinalWords ==
    {"zeroth", "first", "fifth", "fourteenth", "fifteenth", "sixteenth",
     "seventeenth", "eighteenth", "nineteenth", "twentieth", "last"}

\* a call not yet made
Call(fn, x, y) ==
    [op |-> "call", fn |-> fn, x |-> x, y |-> y, xAfter |-> x, yAfter |-> y,
     out |-> Ok(NoneV)]

\* a call made: xAfter and yAfter are the operands as the call leaves them
Done(out) == [last EXCEPT !.op = "done", !.out = out]

InitNum ==
    /\ attrs = [a \in Aggs |-> <<>>]
    /\ cellOf = [a \in Aggs |-> InstanceNamesCell(a)]
    /\ cells = [c \in AggClasses \cup Aggs |-> {}]
    /\ clsIgnore = [c \in AggClasses |-> IgnoreArg(c)]
    /\ \/ \E a \in ModDom, b \in ModDom :
             \/ last = Call("add", a, b)
             \/ \E op \in CompareOps : last = Call(op, a, b)
       \/ \E s \in ModSeqs(MaxLen), cs \in SUBSET (CondDom \ {NoneV}) :
             last = Call("value", s, cs)
       \/ \E l \in 0..MaxLen : \E s1 \in ModSeqs(l), s2 \in ModSeqs(MaxLen - l) :
             last = Call("addTotals", s1, s2)
       \/ \E s \in ModSeqs(MaxLen - 1), m \in SeqMods :
             \/ last = Call("addTotalModifier", s, m)
             \/ last = Call("addModifierTotal", m, s)
       \/ \E s \in ModSeqs(MaxLen) : \E f \in Perms(1..Len(s)) :
             last = Call("permute", s, [i \in 1..Len(s) |-> s[f[i]]])
       \/ \E n \in (0 - 2)..MaxOrdinal :
             \/ last = Call("ordinal", IntV(n), NoneV)
             \/ last = Call("roundtrip", IntV(n), NoneV)
       \/ \E w \in OrdinalWords : last = Call("ordinal", StrV(w), NoneV)

\* a + b for two Modifiers
AddModifiers(a, b) ==
    /\ last.op = "call" /\ last.fn = "add"
    /\ last.x = a /\ last.y = b
    /\ last' = Done(operator_add(a, b))
    /\ UNCHANGED <<attrs, cells, cellOf, clsIgnore>>

\* a op b for two Modifiers, op one of <, <=, > and >=
CompareModifiers(a, b) ==
    /\ last.op = "call" /\ last.fn \in CompareOps
    /\ last.x = a /\ last.y = b
    /\ last' = Done(Compare(last.fn, a, b))
    /\ UNCHANGED <<attrs, cells, cellOf, clsIgnore>>

\* ModifierTotal(*s).value(*cs)
TotalValue(s, cs) ==
    /\ last.op = "call" /\ last.fn = "value"
    /\ last.x = s /\ last.y = cs
    /\ LET total == ModifierTotal__init__(s)
       IN  last' = Done(IF total.err # "none" THEN total
                        ELSE Ok(IntV(value(total.val, cs))))
    /\ UNCHANGED <<attrs, cells, cellOf, clsIgnore>>

\* ModifierTotal(*s1) + ModifierTotal(*s2)
AddTotals(s1, s2) ==
    /\ last.op = "call" /\ last.fn = "addTotals"
    /\ last.x = s1 /\ last.y = s2
    /\ LET t1 == ModifierTotal__init__(s1)
           t2 == ModifierTotal__init__(s2)
       IN  last' = Done(IF t1.err # "none" THEN t1
                        ELSE IF t2.err # "none" THEN t2
                        ELSE operator_add(t1.val, t2.val))
    /\ UNCHANGED <<attrs, cells, cellOf, clsIgnore>>

\* ModifierTotal(*s) + m
AddTotalModifier(s, m) ==
    /\ last.op = "call" /\ last.fn = "addTotalModifier"
    /\ last.x = s /\ last.y = m
    /\ LET t == ModifierTotal__init__(s)
       IN  last' = Done(IF t.err # "none" THEN t
                        ELSE operator_add(t.val, m))
    /\ UNCHANGED <<attrs, cells, cellOf, clsIgnore>>

\* m + ModifierTotal(*s)
AddModifierTotal(m, s) ==
    /\ last.op = "call" /\ last.fn = "addModifierTotal"
    /\ last.x = m /\ last.y = s
    /\ LET t == ModifierTotal__init__(s)
       IN  last' = Done(IF t.err # "none" THEN t
                        ELSE operator_add(m, t.val))
    /\ UNCHANGED <<attrs, cells, cellOf, clsIgnore>>

\* ModifierTotal(*s) and ModifierTotal(*p), p being s in another order:
\* whether they are equal, and the value of each for every set of
\* conditions met
Permuted(s, p) ==
    /\ last.op = "call" /\ last.fn = "permute"
    /\ last.x = s /\ last.y = p
    /\ LET t1 == ModifierTotal__init__(s)
           t2 == ModifierTotal__init__(p)
       IN  last' = Done(IF t1.err # "none" THEN t1
                        ELSE IF t2.err # "none" THEN t2
                        ELSE Ok([k |-> "cmp",
                                 eq |-> ModifierTotal__eq__(t1.val, t2.val),
                                 v1 |-> [cs \in SUBSET (CondDom \ {NoneV}) |->
                                           value(t1.val, cs)],
                                 v2 |-> [cs \in SUBSET (CondDom \ {NoneV}) |->
                                           value(t2.val, cs)]]))
    /\ UNCHANGED <<attrs, cells, cellOf, clsIgnore>>

\* ordinal(v)
Ordinal(v) ==
    /\ last.op = "call" /\ last.fn = "ordinal"
    /\ last.x = v
    /\ last' = Done(ordinal(v))
    /\ UNCHANGED <<attrs, cells, cellOf, clsIgnore>>

\* ordinal(ordinal(v))
OrdinalRoundTrip(v) ==
    /\ last.op = "call" /\ last.fn = "roundtrip"
    /\ last.x = v
    /\ LET w == ordinal(v)
       IN  last' = Done(IF w.err # "none" THEN w ELSE ordinal(w.val))
    /\ UNCHANGED <<attrs, cells, cellOf, clsIgnore>>

NextNum ==
    \/ AddModifiers(last.x, last.y)
    \/ CompareModifiers(last.x, last.y)
    \/ TotalValue(last.x, last.y)
    \/ AddTotals(last.x, last.y)
    \/ AddTotalModifier(last.x, last.y)
    \/ AddModifierTotal(last.x, last.y)
    \/ Permuted(last.x, last.y)
    \/ Ordinal(last.x)
    \/ OrdinalRoundTrip(last.x)

SpecNum == InitNum /\ [][NextNum]_vars

(***************************************************************************)
(* The compound Modifier of dnd35/concepts.py: a set of conditional texts  *)
(* and a dictionary of named values.                                       *)
(***************************************************************************)
\* Modifier(*conditional, **named)
CompoundModifier(conditional, named) ==
    [k |-> "compound", conditional |-> conditional, named |-> named]

\* Modifier.is_simple: bool(self.conditional) or len(self.named) != 1
is_simple(self) ==
    self.conditional # {} \/ Cardinality(DOMAIN self.named) # 1

\* Modifier._unique: the first item of named
_unique(self) ==
    LET name == CHOOSE n \in DOMAIN self.named : TRUE
    IN  <<name, self.named[name]>>

\* Modifier.__mul__ (and __rmul__, which is the same function)
CompoundModifier__mul__(self, other) ==
    IF is_simple(self) THEN Err("AmbiguousOperationError")
    ELSE LET u == _unique(self)
         IN  Ok(CompoundModifier({}, [n \in {u[1]} |-> other * u[2]]))

\* Modifier.__neg__
CompoundModifier__neg__(self) ==
    IF is_simple(self) THEN Err("AmbiguousOperationError")
    ELSE LET u == _unique(self)
         IN  Ok(CompoundModifier({}, [n \in {u[1]} |-> 0 - u[2]]))

CompoundNames == {"size", "dodge"}

\* the compound modifiers scaled and negated
CompoundDom ==
    {CompoundModifier(c, f) :
        c \in SUBSET {"if blind"},
        f \in UNION {[S -> (0 - MaxMod)..MaxMod] : S \in SUBSET CompoundNames}}

\* the integers a compound modifier is multiplied by
ScaleDom == (0 - 1)..MaxMod

InitCompound ==
    /\ attrs = [a \in Aggs |-> <<>>]
    /\ cellOf = [a \in Aggs |-> InstanceNamesCell(a)]
    /\ cells = [c \in AggClasses \cup Aggs |-> {}]
    /\ clsIgnore = [c \in AggClasses |-> IgnoreArg(c)]
    /\ \E m \in CompoundDom :
          \/ last = Call("is_simple", m, NoneV)
          \/ last = Call("neg", m, NoneV)
          \/ \E i \in ScaleDom : \/ last = Call("mul", m, i)
                                  \/ last = Call("rmul", i, m)

\* m.is_simple
IsSimple(m) ==
    /\ last.op = "call" /\ last.fn = "is_simple"
    /\ last.x = m
    /\ last' = Done(Ok(is_simple(m)))
    /\ UNCHANGED <<attrs, cells, cellOf, clsIgnore>>

\* m * i
Mul(m, i) ==
    /\ last.op = "call" /\ last.fn = "mul"
    /\ last.x = m /\ last.y = i
    /\ last' = Done(CompoundModifier__mul__(m, i))
    /\ UNCHANGED <<attrs, cells, cellOf, clsIgnore>>

\* i * m: int.__mul__ does not know the Modifier, so that Modifier.__rmul__
\* is called
RMul(i, m) ==
    /\ last.op = "call" /\ last.fn = "rmul"
    /\ last.x = i /\ last.y = m
    /\ last' = Done(CompoundModifier__mul__(m, i))
    /\ UNCHANGED <<attrs, cells, cellOf, clsIgnore>>

\* -m
Neg(m) ==
    /\ last.op = "call" /\ last.fn = "neg"
    /\ last.x = m
    /\ last' = Done(CompoundModifier__neg__(m))
    /\ UNCHANGED <<attrs, cells, cellOf, clsIgnore>>

NextCompound ==
    \/ IsSimple(last.x)
    \/ Mul(last.x, last.y)
    \/ RMul(last.x, last.y)
    \/ Neg(last.x)

SpecCompound == InitCompound /\ [][NextCompound]_vars

(***************************************************************************)
(* Synergy, the Reference subclass of concepts.py that turns the ranks of  *)
(* a skill into a bonus; the instances it is dereferenced against are      *)
(* plain objects.                                                          *)
(***************************************************************************)
\* Synergy(name, target, modifier, condition)
Synergy(name, target, modifier, condition) ==
    [k |-> "syn", name |-> name, target |-> target, mod |-> modifier,
     condition |-> condition]

RECURSIVE SynergyAddV(_, _), Synergy__add__(_, _)

\* Reference.__add__ (and __radd__) on a Synergy: type(self) is called with
\* the name, the target and the modifier, the condition taking its default
Synergy__add__(self, other) ==
    IF self.mod.k = "none"
    THEN Ok(Synergy(self.name, self.target, other, NoneV))
    ELSE LET m == SynergyAddV(self.mod, other)
         IN  IF m.err # "none" THEN m
             ELSE Ok(Synergy(self.name, self.target, m.val, NoneV))

\* operator.add(x, y) over integers, Modifiers and Synergies: type(x).__add__
\* first, then type(y).__radd__ (int and Modifier have none that applies)
SynergyAddV(x, y) ==
    CASE x.k = "syn" -> Synergy__add__(x, y)
      [] x.k # "syn" /\ y.k = "syn" -> Synergy__add__(y, x)
      [] x.k = "mod" /\ y.k = "mod" -> Modifier__add__(x, y)
      [] x.k = "int" /\ y.k = "int" -> Ok(IntV(x.v + y.v))
      [] OTHER -> Err("TypeError")

\* Synergy._dereference_name: matched tells whether the instance is
\* referred to; ranks that cannot be compared with 5 are handed back
Synergy_dereference_name(self, instance) ==
    IF ~ _refers_to(self, instance) THEN Ok(self)
    ELSE IF self.name \notin DOMAIN PlainAttrs(instance)
    THEN Err("AttributeError")
    ELSE LET result == PlainAttrs(instance)[self.name]
         IN  IF result.k # "int" THEN Ok(result)
             ELSE IF result.v >= 5
                  THEN Ok(Modifier(2, UNTYPED, self.condition))
                  ELSE Ok(Modifier(0, UNTYPED, NoneV))

RECURSIVE Synergy_dereference(_, _)

\* Reference.dereference on a Synergy
Synergy_dereference(self, instance) ==
    LET matched == _refers_to(self, instance)
        d == Synergy_dereference_name(self, instance)
    IN  IF d.err # "none" THEN d
        ELSE LET inner == IF self.mod.k = "syn"
                          THEN Synergy_dereference(self.mod, instance)
                          ELSE Err("AttributeError")
             IN  IF inner.err \in Caught
                 THEN IF ~ matched THEN Err("TypeError")
                      ELSE IF self.mod.k # "none"
                           THEN SynergyAddV(d.val, self.mod)
                      ELSE d
                 ELSE IF inner.err # "none" THEN inner
                 ELSE IF ~ matched
                      THEN Ok([self EXCEPT !.mod = inner.val])
                      ELSE SynergyAddV(d.val, inner.val)

\* the Synergies added to and dereferenced
SynergyDom ==
    {Synergy("bluff", TStr("Character"), m, c) :
        m \in {NoneV, IntV(1)}
              \cup {Modifier(v, UNTYPED, NoneV) : v \in 1..MaxMod},
        c \in CondDom}

\* what is added to a Synergy
AddendDom ==
    {IntV(1), Modifier(1, ModifierType("armor", FALSE), NoneV)}
    \cup {Modifier(v, UNTYPED, NoneV) : v \in (0 - 1)..MaxMod}

\* the instances a Synergy is dereferenced against
SynergyCandDom == Characters \cup {"lf1"}

InitSynergy ==
    /\ attrs = [a \in Aggs |-> <<>>]
    /\ cellOf = [a \in Aggs |-> InstanceNamesCell(a)]
    /\ cells = [c \in AggClasses \cup Aggs |-> {}]
    /\ clsIgnore = [c \in AggClasses |-> IgnoreArg(c)]
    /\ \E s \in SynergyDom, o \in SynergyCandDom :
          \/ last = [op |-> "call", fn |-> "deref", self |-> s, x |-> NoneV,
                     cand |-> o, sum |-> Ok(NoneV), out |-> Ok(NoneV)]
          \/ \E x \in AddendDom, fn \in {"add", "radd"} :
                last = [op |-> "call", fn |-> fn, self |-> s, x |-> x,
                        cand |-> o, sum |-> Ok(NoneV), out |-> Ok(NoneV)]

\* s + x
SynergyAdd(s, x) ==
    /\ last.op = "call" /\ last.fn = "add"
    /\ last.self = s /\ last.x = x
    /\ last' = [last EXCEPT !.op = "added", !.sum = SynergyAddV(s, x)]
    /\ UNCHANGED <<attrs, cells, cellOf, clsIgnore>>

\* x + s
SynergyRAdd(x, s) ==
    /\ last.op = "call" /\ last.fn = "radd"
    /\ last.self = s /\ last.x = x
    /\ last' = [last EXCEPT !.op = "added", !.sum = SynergyAddV(x, s)]
    /\ UNCHANGED <<attrs, cells, cellOf, clsIgnore>>

\* s.dereference(o)
SynergyDereference(s, o) ==
    /\ last.op = "call" /\ last.fn = "deref"
    /\ last.self = s /\ last.cand = o
    /\ last' = [last EXCEPT !.op = "done", !.out = Synergy_dereference(s, o)]
    /\ UNCHANGED <<attrs, cells, cellOf, clsIgnore>>

\* (s + x).dereference(o), for a sum that was built
SumDereference(o) ==
    /\ last.op = "added" /\ last.sum.err = "none"
    /\ last.cand = o
    /\ last' = [last EXCEPT !.op = "done",
                            !.out = Synergy_dereference(last.sum.val, o)]
    /\ UNCHANGED <<attrs, cells, cellOf, clsIgnore>>

NextSynergy ==
    \/ SynergyAdd(last.self, last.x)
    \/ SynergyRAdd(last.x, last.self)
    \/ SynergyDereference(last.self, last.cand)
    \/ SumDereference(last.cand)

SpecSynergy == InitSynergy /\ [][NextSynergy]_vars

(***************************************************************************)
(* What the properties are stated with: the tree of contributors, read     *)
(* off the heap without going through the read protocol                    *)
(***************************************************************************)
\* n is a name Aggregator a aggregates: public and not ignored
Aggregated(H, a, n) == _is_public(n) /\ n \notin H.ignore[ClassOf(a)]

\* the tracked names of a, other than n, that hold an object
ChildNames(H, a, n) ==
    {m \in H.names[a] \ {n} :
        LET at == ObjectGetAttribute(H, a, m)
        IN  at.err = "none" /\ at.val.k = "obj"}

RECURSIVE Exposes(_, _, _), IntTree(_, _, _), TreeSum(_, _, _),
          SumOver(_, _, _, _)

\* object o, or an object of the tree below it, has an attribute n
Exposes(H, o, n) ==
    IF o \notin Aggs THEN n \in DOMAIN PlainAttrs(o)
    ELSE \/ ObjectGetAttribute(H, o, n).err = "none"
         \/ \E m \in ChildNames(H, o, n) :
               Exposes(H, ObjectGetAttribute(H, o, m).val.id, n)

\* every attribute n in the tree below o is an integer
IntTree(H, o, n) ==
    IF o \notin Aggs
    THEN n \in DOMAIN PlainAttrs(o) => PlainAttrs(o)[n].k = "int"
    ELSE /\ ObjectGetAttribute(H, o, n).err = "none"
               => ObjectGetAttribute(H, o, n).val.k = "int"
         /\ \A m \in ChildNames(H, o, n) :
               IntTree(H, ObjectGetAttribute(H, o, m).val.id, n)

\* the sum of TreeSum over the objects stored under the names S of a
SumOver(H, a, n, S) ==
    IF S = {} THEN 0
    ELSE LET m == CHOOSE x \in S : TRUE
         IN  TreeSum(H, ObjectGetAttribute(H, a, m).val.id, n)
             + SumOver(H, a, n, S \ {m})

\* the sum of the integer attributes n over every node of the tree below o
TreeSum(H, o, n) ==
    IF o \notin Aggs
    THEN IF n \in DOMAIN PlainAttrs(o) THEN PlainAttrs(o)[n].v ELSE 0
    ELSE (IF ObjectGetAttribute(H, o, n).err = "none"
          THEN ObjectGetAttribute(H, o, n).val.v ELSE 0)
         + SumOver(H, o, n, ChildNames(H, o, n))

IsRead == last.op = "read"

\* C1: a read of a public, non-ignored name n whose values in the tree are
\* integers returns the sum of n over every node of the tree: the
\* instance's own value and, for every tracked name m # n, what the object
\* stored at m (itself aggregated when it is an Aggregator) exposes for n.
C1_TreeSum ==
    (/\ IsRead
     /\ Aggregated(Heap, last.obj, last.name)
     /\ IntTree(Heap, last.obj, last.name)
     /\ Exposes(Heap, last.obj, last.name))
    => last.out = Ok(IntV(TreeSum(Heap, last.obj, last.name)))

\* Root test=2, Leaf test=1, Branch test=3 with its own Leaf test=1: 7
C1_Witness ==
    /\ IsRead /\ last.obj = "r1" /\ last.name = "test"
    /\ attrs["r1"] = [_test |-> IntV(2), leaf |-> ObjV("lf1"),
                      branch |-> ObjV("b1")]
    /\ attrs["b1"] = [test |-> IntV(3), leaf |-> ObjV("lf1")]
    /\ last.out = Ok(IntV(7))

\* C2: a read of a public, non-ignored name n raises AttributeError if and
\* only if neither the instance nor any tracked contributor exposes n; a
\* contributor that lacks n is skipped.
C2_AttributeError ==
    (IsRead /\ Aggregated(Heap, last.obj, last.name))
    => (last.out.err = "AttributeError"
           <=> ~ Exposes(Heap, last.obj, last.name))

\* the Branch contributor of r1 lacks `test` and is skipped
C2_Witness ==
    /\ IsRead /\ last.obj = "r1" /\ last.name = "test"
    /\ "branch" \in DOMAIN attrs["r1"]
    /\ ~ Exposes(Heap, "b1", "test")
    /\ last.out = Ok(IntV(2))

\* the contributor names of a, as a set
Names(a) == cells[cellOf[a]]

\* C3: contributor_names is always the subclass's property names together
\* with exactly the public, non-ignored names currently assigned on the
\* instance.
C3_ContributorNames ==
    \A a \in Aggs :
        Names(a) = PropertyNames(ClassOf(a))
                   \cup {n \in DOMAIN attrs[a] :
                            /\ _is_public(n)
                            /\ n \notin IgnoreArg(ClassOf(a))}

\* an ignored and a private name are assigned on r2, a public name has been
\* assigned on r1 and another one deleted from it
C3_Witness ==
    /\ last.op = "del" /\ last.obj = "r1" /\ last.out.err = "none"
    /\ {"ign", "_p"} \subseteq DOMAIN attrs["r2"]
    /\ Names("r2") = {"test"}
    /\ "leaf" \in Names("r1") /\ last.name \notin Names("r1")

\* a delete of x on a that returned
DelDone(a, x) ==
    /\ last'.op = "del" /\ last'.obj = a /\ last'.name = x
    /\ last'.out.err = "none"

\* what the object stored at x of a adds to an integer read of n
Contribution(H, a, x, n) ==
    IF x \in ChildNames(H, a, n)
    THEN TreeSum(H, ObjectGetAttribute(H, a, x).val.id, n)
    ELSE 0

\* C4: once x is deleted from Aggregator a, x is neither an attribute nor a
\* tracked name of a, a read of x finds no own value, and a read of any
\* other name n is what it was without what the object stored at x exposed
\* for n.
C4_DeleteStopsContribution ==
    [][\A a \in Aggs : \A x \in DelDom(a) :
          DelDone(a, x) =>
            /\ x \notin DOMAIN attrs'[a]
            /\ x \notin Names(a)'
            /\ ObjectGetAttribute(Heap', a, x).err = "AttributeError"
            /\ \A n \in ReadDom(a) \ {x} :
                 \A ord \in Orders(Heap', a) :
                   /\ (IntTree(Heap, a, n) /\ Exposes(Heap', a, n))
                        => ReadAttribute(Heap', ord, a, n)
                             = Ok(IntV(TreeSum(Heap, a, n)
                                       - Contribution(Heap, a, x, n)))
                   /\ ~ Exposes(Heap', a, n)
                        => ReadAttribute(Heap', ord, a, n)
                             = Err("AttributeError")]_vars

\* the Branch has been deleted from r1, whose `test` no longer counts it
C4_Witness ==
    /\ last.op = "del" /\ last.obj = "r1" /\ last.name = "branch"
    /\ last.out.err = "none"
    /\ "leaf" \in DOMAIN attrs["r1"]
    /\ Exposes(Heap, "b1", "test")

\* C5: every instance has a contributor-name set of its own, which starts
\* as a copy of the class-level property names, and an assignment or a
\* deletion on a changes neither the contributor names of another instance
\* nor the class-level property-name and ignored-name sets.
C5_InstancesIndependent ==
    /\ \A a \in Aggs :
          /\ cellOf[a] # ClassNamesCell(ClassOf(a))
          /\ \A b \in Aggs \ {a} : cellOf[a] # cellOf[b]
          /\ Names(a) = cells[ClassNamesCell(ClassOf(a))]
    /\ [][\A a \in Aggs :
            (last'.op \in {"set", "del"} /\ last'.obj = a) =>
              /\ \A b \in Aggs \ {a} : Names(b)' = Names(b)
              /\ \A c \in AggClasses :
                   /\ cells'[ClassNamesCell(c)] = cells[ClassNamesCell(c)]
                   /\ cells'[ClassNamesCell(c)] = PropertyNames(c)
                   /\ clsIgnore'[c] = IgnoreArg(c)]_vars

\* r1 tracks names that r2, of the same class, does not
C5_Witness ==
    /\ last.op = "set" /\ last.obj = "r1"
    /\ {"other", "leaf"} \subseteq Names("r1")
    /\ Names("r2") = {"test"}

\* the Reference r refers to object o: o's class is the target type or a
\* subclass of it, or has exactly the name the target gives
Matches(r, o) ==
    \/ r.target.tk = "type" /\ IsSubclass(ClassOf(o), r.target.n)
    \/ r.target.tk = "str" /\ ClassOf(o) = r.target.n

\* r.modifier is none or a number
PlainModifier(r) == r.mod.k \in {"none", "int"}

\* the integer v with the plain modifier of r added
Plus(v, r) == IF r.mod.k = "none" THEN v ELSE IntV(v.v + r.mod.v)

\* res is what getattr(o, r.name) returns, with the plain modifier of r
\* added (under some iteration order)
AttributePlus(o, r, res) ==
    \E ord \in OrdersAt(Heap, o) :
        LET g == GetAttr(Heap, ord, o, r.name)
        IN  g.err = "none" /\ res = Plus(g.val, r)

\* the read reduced its values to a Reference
ReducedToRef ==
    /\ IsRead /\ Aggregated(Heap, last.obj, last.name)
    /\ last.red.err = "none" /\ last.red.val.k = "ref"

Chain ==
    /\ "branch" \in DOMAIN attrs["r1"]
    /\ "other" \in DOMAIN attrs["r1"]
    /\ "leaf" \in DOMAIN attrs["b1"]
    /\ attrs["b1"]["leaf"].id \in {"lfR", "lfN"}
    /\ attrs["b1"]["leaf"].id = "lfN" => "another" \in DOMAIN attrs["b1"]

\* what the Reference has accumulated when it leaves the Branch
Accumulated ==
    (IF "test" \in DOMAIN attrs["b1"] THEN attrs["b1"]["test"].v ELSE 0)
    + (IF attrs["b1"]["leaf"].id = "lfN" THEN attrs["b1"]["another"].v
       ELSE 0)

NothingAccumulated ==
    "test" \notin DOMAIN attrs["b1"] /\ attrs["b1"]["leaf"].id = "lfR"

\* what the Leaf r1 itself holds adds to r1.test
OwnLeaf ==
    IF "leaf" \notin DOMAIN attrs["r1"] THEN 0
    ELSE IF attrs["r1"]["leaf"].id = "lf1" THEN 1
    ELSE attrs["r1"]["other"].v

\* C7: read at the Branch, whose type it does not refer to, the Leaf's
\* Reference to Root stays pending and carries what was added to it, a
\* nested Reference to the Branch being resolved there; read at the Root it
\* is resolved to Root's referenced attribute plus everything accumulated.
C7_Chain ==
    (Chain /\ IsRead /\ last.name = "test") =>
      /\ last.obj = "b1" =>
           last.out = Ok(RefV("other", TStr("Root"),
                              IF NothingAccumulated THEN NoneV
                              ELSE IntV(Accumulated)))
      /\ last.obj = "r1" =>
           last.out = Ok(IntV(attrs["r1"]["other"].v + Accumulated
                              + attrs["r1"]["_test"].v + OwnLeaf))

\* the Leaf/Branch/Root test: Root 2, other 2, Branch 3 and another 1
C7_Witness ==
    /\ Chain /\ IsRead /\ last.name = "test" /\ last.obj = "r1"
    /\ attrs["b1"] = [test |-> IntV(3), another |-> IntV(1),
                      leaf |-> ObjV("lfN")]
    /\ "leaf" \notin DOMAIN attrs["r1"]
    /\ last.out = Ok(IntV(8))

IsDeref == last.op = "deref"

\* C8 as claimed: dereferencing against a candidate the Reference does not
\* refer to returns a Reference equal to the original.
C8_Original ==
    (IsDeref /\ ~ Matches(last.arg, last.obj)) => last.out = Ok(last.arg)

\* C8 (amended): dereference called directly on a candidate the Reference
\* does not refer to raises TypeError when the modifier is none or a number,
\* or a nested Reference that cannot be dereferenced against the candidate;
\* when the nested Reference can be dereferenced, it returns a Reference with
\* the original name and target whose modifier is the dereferenced value.
C8_Unreferenced ==
    (IsDeref /\ ~ Matches(last.arg, last.obj)) =>
      LET r == last.arg
          M == r.mod
      IN  /\ PlainModifier(r) => last.out.err = "TypeError"
          /\ (M.k = "ref" /\ PlainModifier(M)) =>
               IF Matches(M, last.obj) /\ Exposes(Heap, last.obj, M.name)
               THEN /\ last.out.err = "none"
                    /\ last.out.val.k = "ref"
                    /\ last.out.val.name = r.name
                    /\ last.out.val.target = r.target
                    /\ AttributePlus(last.obj, M, last.out.val.mod)
               ELSE last.out.err = "TypeError"

\* Reference('other', 'Unknown', Reference('other', Leaf)) against a Leaf
\* with other = 1 gives Reference('other', 'Unknown', 1)
C8_Witness ==
    /\ IsDeref /\ last.obj = "lfo"
    /\ last.arg = RefV("other", TStr("Unknown"),
                       RefV("other", TType("Leaf"), NoneV))
    /\ last.out = Ok(RefV("other", TStr("Unknown"), IntV(1)))

\* C9: dereference against a candidate the Reference refers to, with a
\* modifier that is none or a number, returns the candidate's attribute
\* named by the Reference plus the modifier (the attribute alone without a
\* modifier).
C9_Referenced ==
    (/\ IsDeref /\ Matches(last.arg, last.obj) /\ PlainModifier(last.arg)
     /\ Exposes(Heap, last.obj, last.arg.name))
    => /\ last.out.err = "none"
       /\ AttributePlus(last.obj, last.arg, last.out.val)

\* Reference('other', 'Root', 1) against r1
C9_Witness ==
    /\ IsDeref /\ last.obj = "r1"
    /\ last.arg = RefV("other", TStr("Root"), IntV(1))
    /\ last.out = Ok(IntV(attrs["r1"]["other"].v + 1))

\* C10 as claimed: a candidate whose class is not exactly the target (a
\* strict subclass of the target type included) is not referred to, so that
\* a Reference with a plain modifier raises TypeError.
C10_Original ==
    (/\ IsDeref /\ PlainModifier(last.arg)
     /\ ClassOf(last.obj) # last.arg.target.n)
    => last.out.err = "TypeError"

\* C10 (amended): a Reference whose target is a type refers to a candidate
\* whose class is the target or a subclass of it; a Reference whose target
\* is a string refers to a candidate whose class has exactly that name, so
\* not to an instance of a subclass with another name.  (A Reference with a
\* plain modifier raises TypeError exactly when the candidate is not
\* referred to.)
C10_Match ==
    (IsDeref /\ PlainModifier(last.arg)) =>
      (last.out.err = "TypeError"
         <=> ~ \/ /\ last.arg.target.tk = "type"
                  /\ IsSubclass(ClassOf(last.obj), last.arg.target.n)
               \/ /\ last.arg.target.tk = "str"
                  /\ ClassOf(last.obj) = last.arg.target.n)

\* Reference('other', Leaf) against an instance of SubLeaf is resolved
C10_Witness ==
    /\ IsDeref /\ last.obj = "sl1"
    /\ last.arg = RefV("other", TType("Leaf"), NoneV)
    /\ last.out = Ok(IntV(2))

RECURSIVE AllRefer(_, _), ChainTotal(_, _, _), Bump(_, _)

\* r and every Reference nested in its modifier refer to o, and o has the
\* attributes they name
AllRefer(r, o) ==
    /\ Matches(r, o) /\ Exposes(Heap, o, r.name)
    /\ r.mod.k = "ref" => AllRefer(r.mod, o)

\* the attributes of o named by r and by the References nested in it, and
\* the innermost modifier, added up
ChainTotal(ord, r, o) ==
    GetAttr(Heap, ord, o, r.name).val.v
      + CASE r.mod.k = "ref" -> ChainTotal(ord, r.mod, o)
          [] r.mod.k = "int" -> r.mod.v
          [] OTHER -> 0

\* the modifier m with the integer a added: a itself when there is no
\* modifier, the sum for a number, and for a Reference the Reference with
\* its own modifier increased
Bump(m, a) ==
    CASE m.k = "none" -> a
      [] m.k = "int" -> IntV(m.v + a.v)
      [] OTHER -> RefV(m.name, m.target, Bump(m.mod, a))

\* C11: when a Reference and the References nested in its modifier, at any
\* depth, all refer to the candidate, dereference returns the sum of the
\* candidate's attributes they name (plus the innermost modifier).
C11_Nested ==
    (IsDeref /\ last.arg.mod.k = "ref" /\ AllRefer(last.arg, last.obj))
    => \E ord \in OrdersAt(Heap, last.obj) :
          last.out = Ok(IntV(ChainTotal(ord, last.arg, last.obj)))

\* three levels: Reference('other', 'Root', Reference('other', 'Root',
\* Reference('other', 'Root'))) against r1 gives three times r1.other
C11_Witness ==
    /\ IsDeref /\ last.obj = "r1"
    /\ last.arg = RefV("other", TStr("Root"),
                       RefV("other", TStr("Root"),
                            RefV("other", TStr("Root"), NoneV)))
    /\ last.out = Ok(IntV(3 * attrs["r1"]["other"].v))

\* the candidate is referred to by last.arg and has the attribute, but the
\* nested modifier Reference is not resolved against it: dereferencing the
\* modifier raises AttributeError or TypeError, or returns a Reference
InnerPending(ord) ==
    LET r == last.arg
        inn == dereference(Heap, ord, r.mod, last.obj)
    IN  /\ Matches(r, last.obj) /\ Exposes(Heap, last.obj, r.name)
        /\ r.mod.k = "ref"
        /\ inn.err \in Caught \/ (inn.err = "none" /\ inn.val.k = "ref")

\* C12 as claimed: the Reference returned has the name and target of the
\* outer Reference.
C12_Original ==
    (IsDeref /\ \E ord \in OrdersAt(Heap, last.obj) : InnerPending(ord))
    => /\ last.out.err = "none" /\ last.out.val.k = "ref"
       /\ last.out.val.name = last.arg.name
       /\ last.out.val.target = last.arg.target

\* C12 (amended): when the candidate is referred to by a Reference but the
\* nested modifier Reference stays unresolved, dereference returns a new
\* Reference with the name and target of the Reference the inner resolution
\* left pending (the modifier Reference itself when dereferencing it raised,
\* otherwise the Reference its dereference returned), whose modifier is the
\* modifier of that pending Reference with the candidate's attribute added.
C12_Pending ==
    IsDeref =>
      \A ord \in OrdersAt(Heap, last.obj) :
        InnerPending(ord) =>
          LET r == last.arg
              a == GetAttr(Heap, ord, last.obj, r.name).val
              inn == dereference(Heap, ord, r.mod, last.obj)
              pend == IF inn.err = "none" THEN inn.val ELSE r.mod
          IN  last.out = Ok(RefV(pend.name, pend.target, Bump(pend.mod, a)))

\* Reference('other', 'Root', Reference('another', 'Branch',
\* Reference('other', 'Root'))) against r1: the inner Reference stays
\* pending on Branch with its own modifier resolved and r1.other added
C12_Witness ==
    /\ IsDeref /\ last.obj = "r1"
    /\ last.arg = RefV("other", TStr("Root"),
                       RefV("another", TStr("Branch"),
                            RefV("other", TStr("Root"), NoneV)))
    /\ last.out = Ok(RefV("another", TStr("Branch"),
                          IntV(2 * attrs["r1"]["other"].v)))

\* C13: when the candidate is not referred to by the outer Reference but by
\* its nested modifier Reference, dereference returns a Reference with the
\* outer name and target whose modifier is the resolved inner value, and the
\* original Reference is as it was before the call.
C13_InnerOnly ==
    (/\ IsDeref /\ ~ Matches(last.arg, last.obj)
     /\ last.arg.mod.k = "ref" /\ PlainModifier(last.arg.mod)
     /\ Matches(last.arg.mod, last.obj)
     /\ Exposes(Heap, last.obj, last.arg.mod.name))
    => /\ last.out.err = "none"
       /\ last.out.val.k = "ref"
       /\ last.out.val.name = last.arg.name
       /\ last.out.val.target = last.arg.target
       /\ AttributePlus(last.obj, last.arg.mod, last.out.val.mod)
       /\ last.self = last.arg

\* Reference('other', 'Unknown', Reference('other', 'Root')) against r1
C13_Witness ==
    /\ IsDeref /\ last.obj = "r1"
    /\ last.arg = RefV("other", TStr("Unknown"),
                       RefV("other", TStr("Root"), NoneV))
    /\ last.out = Ok(RefV("other", TStr("Unknown"), attrs["r1"]["other"]))
    /\ last.self = last.arg

IsAdd == last.op = "add"

\* C14: r + x is a new Reference with the name and target of r and the
\* modifier r.modifier + x (x when r has no modifier), r is left as it was,
\* and against every candidate r refers to (and dereferences against),
\* dereferencing r + x gives what dereferencing r gives, plus x.
C14_Add ==
    IsAdd =>
      LET r == last.arg
      IN  /\ last.out = Ok(RefV(r.name, r.target, Bump(r.mod, last.x)))
          /\ last.self = r
          /\ Matches(r, last.obj) =>
                \A ord \in OrdersAt(Heap, last.obj) :
                  LET d == dereference(Heap, ord, r, last.obj)
                  IN  d.err = "none" =>
                        dereference(Heap, ord, last.out.val, last.obj)
                          = AddV(d.val, last.x)

\* Reference('other', 'Root', 1) + 2 is Reference('other', 'Root', 3), which
\* r1 dereferences
C14_Witness ==
    /\ IsAdd /\ last.obj = "r1" /\ last.x = IntV(2)
    /\ last.arg = RefV("other", TStr("Root"), IntV(1))
    /\ last.out = Ok(RefV("other", TStr("Root"), IntV(3)))

\* the call fn has been made
IsDone(fn) == last.op = "done" /\ last.fn = fn

\* two Modifiers of one type have been added
SameTypeAdded ==
    IsDone("add") /\ last.x.type = last.y.type

C18_DifferentTypes ==
    (/\ last.op = "done" /\ last.fn \in {"add"} \cup CompareOps
     /\ last.x.type # last.y.type)
    => last.out.err = "DifferentModifierTypesError"

\* >= between modifiers whose types differ in the stacking flag only
C18_Witness ==
    /\ IsDone(">=")
    /\ last.x.type = ModifierType("armor", FALSE)
    /\ last.y.type = ModifierType("armor", TRUE)
    /\ last.x.value = last.y.value
    /\ last.out.err = "DifferentModifierTypesError"

\* the modifiers of the list s that have no condition
Unconditional(s) == SelectSeq(s, LAMBDA m : m.condition = NoneV)

\* C19 as claimed: value() with no conditions is the value of the total
\* built from the unconditional modifiers alone, whatever modifiers the
\* total was built from.
C19_Original ==
    (IsDone("value") /\ last.y = {})
    => last.out
         = Ok(IntV(value(ModifierTotal__init__(Unconditional(last.x)).val,
                         {})))

\* two untyped +1 modifiers under the same condition: value() counts them
C19_Witness ==
    /\ IsDone("value") /\ last.y = {}
    /\ last.x = <<Modifier(1, UNTYPED, Condition("c")),
                  Modifier(1, UNTYPED, Condition("c"))>>
    /\ last.out = Ok(IntV(2))

\* C20 as claimed: adding totals, or a total and a modifier in either order,
\* gives the total built from the modifiers of both in one go, and leaves
\* the operands as they were.
C20_Original ==
    LET built(s) == ModifierTotal__init__(s).val
        same(s) == /\ last.out.err = "none"
                   /\ ModifierTotal__eq__(last.out.val, built(s))
                   /\ last.xAfter = last.x /\ last.yAfter = last.y
    IN  /\ IsDone("addTotals") => same(last.x \o last.y)
        /\ IsDone("addTotalModifier") => same(Append(last.x, last.y))
        /\ IsDone("addModifierTotal") => same(Append(last.y, last.x))

\* the total of two untyped +1 modifiers under the same condition, added to
\* the empty total, is keyed without the condition
C20_Witness ==
    /\ IsDone("addTotals") /\ last.y = <<>>
    /\ last.x = <<Modifier(1, UNTYPED, Condition("c")),
                  Modifier(1, UNTYPED, Condition("c"))>>
    /\ last.out.err = "none"
    /\ last.out.val.d = <<[key |-> <<UNTYPED, TRUE, NoneV>>,
                           mod |-> Modifier(2, UNTYPED, NoneV)]>>

RECURSIVE SeqSum(_, _)

\* the values of the modifiers of the list s, from position i on, added up
SeqSum(s, i) == IF i > Len(s) THEN 0 ELSE s[i].value + SeqSum(s, i + 1)

\* the largest element of the set S of integers, 0 for the empty set
Largest(S) == IF S = {} THEN 0 ELSE CHOOSE v \in S : \A w \in S : w <= v

\* the smallest element of the set S of integers, 0 for the empty set
Smallest(S) == IF S = {} THEN 0 ELSE CHOOSE v \in S : \A w \in S : v <= w

\* the list s holds modifiers of one type only, none with a condition
OneTypeUnconditional(s) ==
    /\ s # <<>>
    /\ \A i \in 1..Len(s) : s[i].type = s[1].type /\ s[i].condition = NoneV

\* C21: for a total built from unconditional modifiers of one non-stacking
\* type, value() is the largest non-negative value inserted (0 if none) plus
\* the smallest negative value inserted (0 if none); for a stacking type it
\* is the sum of all values inserted.
C21_BestAndWorst ==
    (IsDone("value") /\ OneTypeUnconditional(last.x))
    => LET s == last.x
           vals == {s[i].value : i \in 1..Len(s)}
       IN  last.out
             = Ok(IntV(IF s[1].type.stacks THEN SeqSum(s, 1)
                       ELSE Largest({v \in vals : v >= 0})
                              + Smallest({v \in vals : v < 0})))

\* armor modifiers +1, +1 and -1: the best bonus and the worst penalty give 0
C21_Witness ==
    /\ IsDone("value") /\ last.y = {}
    /\ last.x = <<Modifier(1, ModifierType("armor", FALSE), NoneV),
                  Modifier(1, ModifierType("armor", FALSE), NoneV),
                  Modifier(0 - 1, ModifierType("armor", FALSE), NoneV)>>
    /\ last.out = Ok(IntV(0))

\* a total has been built, from one list of modifiers or by an addition
TotalBuilt ==
    /\ last.op = "done"
    /\ last.fn \in {"value", "addTotals", "addTotalModifier",
                    "addModifierTotal", "permute"}

\* C25: building a ModifierTotal from any list of modifiers, and adding totals
\* or a total and a modifier, raises no error.
C25_NeverFails == TotalBuilt => last.out.err = "none"

\* a bonus and a penalty of one non-stacking type, and an untyped modifier,
\* in one total, added to a total holding a bonus of that type
C25_Witness ==
    /\ IsDone("addTotals")
    /\ last.x = <<Modifier(1, ModifierType("armor", FALSE), NoneV),
                  Modifier(0 - 1, ModifierType("armor", FALSE), NoneV)>>
    /\ last.y = <<Modifier(1, ModifierType("armor", FALSE), Condition("c"))>>
    /\ last.out.err = "none"

\* C26: a ModifierTotal does not depend on the order of insertion: the totals
\* built from a list of modifiers and from a permutation of it are equal and
\* have the same value for every set of conditions met.
C26_OrderOfInsertion ==
    IsDone("permute")
    => /\ last.out.err = "none"
       /\ last.out.val.eq
       /\ last.out.val.v1 = last.out.val.v2

\* three modifiers of which two merge, inserted in another order
C26_Witness ==
    /\ IsDone("permute")
    /\ last.x = <<Modifier(1, UNTYPED, Condition("c")),
                  Modifier(0 - 1, UNTYPED, NoneV),
                  Modifier(1, UNTYPED, NoneV)>>
    /\ last.y = <<Modifier(1, UNTYPED, NoneV),
                  Modifier(0 - 1, UNTYPED, NoneV),
                  Modifier(1, UNTYPED, Condition("c"))>>
    /\ last.out.val.eq

\* C27 as claimed: of two Modifiers a and b of one type, exactly one of
\* a < b, a == b and a > b holds, and a > b does not hold together with
\* b > a.
C27_Original ==
    (last.op = "done" /\ last.fn \in CompareOps /\ last.x.type = last.y.type)
    => LET a == last.x
           b == last.y
           lt == Compare("<", a, b).val
           eq == Modifier__eq__(a, b)
           gt == Compare(">", a, b).val
       IN  /\ (lt /\ ~ eq /\ ~ gt) \/ (~ lt /\ eq /\ ~ gt) \/ (~ lt /\ ~ eq /\ gt)
           /\ ~ (gt /\ Compare(">", b, a).val)

\* armor modifiers of the same value under two conditions: a > b is true
\* (and so is b > a)
C27_Witness ==
    /\ IsDone(">")
    /\ last.x = Modifier(1, ModifierType("armor", FALSE), Condition("c"))
    /\ last.y = Modifier(1, ModifierType("armor", FALSE), Condition("d"))
    /\ last.out = Ok(TRUE)
    /\ Compare(">", last.y, last.x) = Ok(TRUE)

\* C29 as claimed: a delete that raises leaves the attributes and the
\* tracked names of every instance as they were.
C29_Original ==
    [][(last'.op = "del" /\ last'.out.err # "none")
        => (attrs' = attrs /\ cells' = cells)]_vars

\* del r2.ign after r2.ign was set: KeyError is raised and the attribute
\* is gone
C29_Witness ==
    /\ last.op = "del" /\ last.obj = "r2" /\ last.name = "ign"
    /\ last.out = Err("KeyError")
    /\ "ign" \notin DOMAIN attrs["r2"]

C28_Original ==
    IsRead => \A ord \in Orders(Heap, last.obj) :
                 ReadAttribute(Heap, ord, last.obj, last.name) = last.out

\* b1 holds two contributors whose test are References to different
\* attributes of a Root: the read returns one wrapped in the other
C28_Witness ==
    /\ IsRead /\ last.obj = "b1" /\ last.name = "test"
    /\ ObjectGetAttribute(Heap, "b1", "leaf") = Ok(ObjV("lfR"))
    /\ ObjectGetAttribute(Heap, "b1", "leaf2") = Ok(ObjV("lfA"))
    /\ {"leaf", "leaf2"} \subseteq Names("b1")
    /\ last.out = Ok(RefV("other", TStr("Root"),
                          RefV("another", TStr("Root"), NoneV)))

\* the English ordinal words for 0 to 20
EnglishOrdinals ==
    <<"zeroth", "first", "second", "third", "fourth", "fifth",
      "sixth", "seventh", "eighth", "ninth", "tenth", "eleventh",
      "twelfth", "thirteenth", "fourteenth", "fifteenth", "sixteenth",
      "seventeenth", "eighteenth", "nineteenth", "twentieth">>

\* C24 as claimed: ordinal(n) is the English ordinal word of n for n from 0
\* to 20 and ordinal(ordinal(n)) is n; ordinal(n) raises ValueError for a
\* negative n and NotImplementedError for n above twenty.
C24_Original ==
    /\ (IsDone("ordinal") /\ last.x.k = "int")
       => LET n == last.x.v
          IN  last.out = IF n < 0 THEN Err("ValueError")
                         ELSE IF n > 20 THEN Err("NotImplementedError")
                         ELSE Ok(StrV(EnglishOrdinals[n + 1]))
    /\ (IsDone("roundtrip") /\ last.x.v \in 0..20) => last.out = Ok(last.x)

\* ordinal(15) returned 'sixteenth'
C24_Witness ==
    /\ IsDone("ordinal") /\ last.x = IntV(15)
    /\ last.out = Ok(StrV("sixteenth"))

\* a compound modifier with no conditional text and exactly one named entry
SingleNamed(m) == m.conditional = {} /\ Cardinality(DOMAIN m.named) = 1

\* the compound modifier holding the single named value of m, times i
Scaled(m, i) ==
    CompoundModifier({}, [n \in DOMAIN m.named |-> i * m.named[n]])

\* C23 as claimed: is_simple is true exactly for a compound modifier with
\* no conditional text and one named entry; scaling and negating raise
\* AmbiguousOperationError exactly for the others, and give the single named
\* value multiplied (or negated) for these.
C23_Original ==
    /\ IsDone("is_simple") => last.out = Ok(SingleNamed(last.x))
    /\ IsDone("mul")
       => last.out = IF SingleNamed(last.x) THEN Ok(Scaled(last.x, last.y))
                     ELSE Err("AmbiguousOperationError")
    /\ IsDone("rmul")
       => last.out = IF SingleNamed(last.y) THEN Ok(Scaled(last.y, last.x))
                     ELSE Err("AmbiguousOperationError")
    /\ IsDone("neg")
       => last.out = IF SingleNamed(last.x) THEN Ok(Scaled(last.x, 0 - 1))
                     ELSE Err("AmbiguousOperationError")

\* Modifier(size=1).is_simple returned False
C23_Witness ==
    /\ IsDone("is_simple")
    /\ last.x = CompoundModifier({}, [n \in {"size"} |-> 1])
    /\ last.out = Ok(FALSE)

\* the ranks the candidate of the call holds under the Synergy's name
Ranks == PlainAttrs(last.cand)[last.self.name].v

\* C30 as claimed: the sum of a Synergy and a value is a Synergy with the
\* same condition, and dereferencing the sum against a character gives a
\* bonus under that condition for 5 ranks or more.
C30_Original ==
    /\ (last.op \in {"added", "done"} /\ last.fn \in {"add", "radd"}
          /\ last.sum.err = "none")
       => /\ last.sum.val.k = "syn"
          /\ last.sum.val.condition = last.self.condition
    /\ (last.op = "done" /\ last.fn \in {"add", "radd"}
          /\ last.cand \in Characters /\ last.out.err = "none"
          /\ Ranks >= 5)
       => last.out.val.condition = last.self.condition

\* Synergy('bluff', 'Character', None, Condition('c')) + Modifier(1) has no
\* condition
C30_Witness ==
    /\ last.op = "added" /\ last.fn = "add"
    /\ last.self = Synergy("bluff", TStr("Character"), NoneV, Condition("c"))
    /\ last.x = Modifier(1, UNTYPED, NoneV)
    /\ last.sum = Ok(Synergy("bluff", TStr("Character"),
                             Modifier(1, UNTYPED, NoneV), NoneV))

====
